---- MODULE Spec2Model ----
(***************************************************************************)
(* Model of mod-geddon-binding-shard: the once-per-server grant gate of    *)
(* the Talisman of Binding Shard.  Two builds of the module exist in the   *)
(* repository: the two-phase build (kill handler + loot handler) and the   *)
(* kill-only build (kill handler that also announces).                     *)
(***************************************************************************)
EXTENDS Integers, Sequences, FiniteSets, TLC

\* ------------------------------------------------------------------ bounds
MaxWorkers == 2          \* host worker threads dispatching kill / loot callbacks
MaxCorpses == 2          \* lootable containers (corpses) alive at once
MaxTime    == 2          \* distinct values std::time() can return
MaxBoots   == 1          \* process restarts explored

\* --------------------------------------------------------------- constants
NPC_BARON_GEDDON == 12056
ITEM_TALISMAN    == 17782
OTHER_NPC        == NPC_BARON_GEDDON + 1   \* some creature entry that is not the default
OTHER_ITEM       == ITEM_TALISMAN + 1      \* some item entry that is not the talisman
scale            == 10000        \* RollDrop: 100.00%
NAME_LIMIT       == 63           \* name.resize(63)
KEY_NAME         == "geddon_17782_once"

\* chancePct is a float percentage; it is modelled in fixed point, as a
\* number of 1/ChanceUnit percent (all values used are exact binary floats).
ChanceUnit == 2 ^ 10
Pct(n)     == n * ChanceUnit

Workers == 1 .. MaxWorkers
Corpses == 1 .. MaxCorpses
Times   == 1 .. MaxTime

\* Optional values: <<>> is nullptr / SQL NULL, <<v>> is a present value.
NULL    == << >>
Some(v) == << v >>

\* Who holds a mutex.
Free      == << "free", 0 >>
World     == << "world", 0 >>
HeldBy(w) == << "worker", w >>

\* Player names are sequences of characters.
Names   == { << >>, << "A" >>, << "B", "'" >> }
Players == { Some(n) : n \in Names }          \* non-null Player*
Entries == { NPC_BARON_GEDDON, OTHER_NPC }
Items   == { ITEM_TALISMAN, OTHER_ITEM }
Draws   == { 1, scale }                       \* urand(1, scale) outcomes explored
Killed  == [ corpse : Corpses, entry : Entries ]   \* a killed creature: its corpse and entry

\* Raw option values handed over by the configuration manager.
RawEntries == { 0, NPC_BARON_GEDDON, OTHER_NPC }
RawChances == { Pct(0 - 1), Pct(0), Pct(50), Pct(100), Pct(150) }
RawOptions == [ enable : BOOLEAN, npcEntry : RawEntries, chancePct : RawChances,
                allowRepeat : BOOLEAN, resetOnStart : BOOLEAN ]

\* The reduced input domains used when interleavings are explored.
HotOptions == [ enable : {TRUE}, npcEntry : {NPC_BARON_GEDDON}, chancePct : {Pct(100)},
                allowRepeat : BOOLEAN, resetOnStart : BOOLEAN ]
HotPlayers == { Some(<< "A" >>) }
HotKilled  == [ corpse : Corpses, entry : {NPC_BARON_GEDDON} ]

VARIABLES
    variant,          \* which build is loaded: "two_phase" or "kill_only"
    options,          \* sConfigMgr: the option values of the loaded configuration file
    gConf,            \* ShardConfig gConf
    gAlreadyDropped,  \* std::atomic<bool> gAlreadyDropped (the gate cache)
    gDbMutex,         \* std::mutex gDbMutex: Free or the thread holding it
    tableExists,      \* table mod_geddon_once_drop exists
    rows,             \* its rows
    loot,             \* per corpse: units of the talisman in items / quest_items
    pc,               \* per worker: position in the kill / loot callback
    arg,              \* per worker: arguments and locals of the running callback
    sent,             \* per worker: global messages sent by the running callback
    cpc,              \* world thread: position in OnAfterConfigLoad
    cres,             \* world thread: QueryResult res of LoadDroppedState (NULL or the column)
    started,          \* the startup configuration load has completed
    boots,            \* restarts so far
    inserted,         \* AddOneToLoot calls since the process started
    cfail,            \* a store statement of the current / latest configuration load failed
    bootGranted,      \* the record was marked dropped when the process last restarted
    rolled            \* RollDrop on its own: the inputs and the result

vars == << variant, options, gConf, gAlreadyDropped, gDbMutex, tableExists, rows, loot,
           pc, arg, sent, cpc, cres, started, boots, inserted,
           cfail, bootGranted, rolled >>

\* ------------------------------------------------------------------ store
DefaultRow == [ keyname |-> KEY_NAME, dropped |-> FALSE,
                last_drop_time |-> 0, last_killer |-> NULL ]

HasRow     == tableExists /\ \E r \in rows : r.keyname = KEY_NAME
TheRow     == CHOOSE r \in rows : r.keyname = KEY_NAME
Granted    == HasRow /\ TheRow.dropped

\* UPDATE ... WHERE keyname = KEY_NAME, with the SET clause given as a function.
UpdateRows(rs, set(_)) ==
    { IF r.keyname = KEY_NAME THEN set(r) ELSE r : r \in rs }

\* ----------------------------------------------------------------- config
ShardConfig == [ enable |-> TRUE, npcEntry |-> NPC_BARON_GEDDON, chancePct |-> Pct(1),
                 allowRepeat |-> FALSE, resetOnStart |-> FALSE ]

\* Mutant: the options are taken as they are.
LoadConfig_Unvalidated(o) == o

\* OnAfterConfigLoad, lines reading and validating the options.
LoadConfig(o) ==
    [ enable       |-> o.enable,
      npcEntry     |-> IF o.npcEntry = 0 THEN NPC_BARON_GEDDON ELSE o.npcEntry,
      chancePct    |-> IF o.chancePct < Pct(0) THEN Pct(0)
                       ELSE IF o.chancePct > Pct(100) THEN Pct(100)
                       ELSE o.chancePct,
      allowRepeat  |-> o.allowRepeat,
      resetOnStart |-> o.resetOnStart ]

\* ------------------------------------------------------------------- loot
EmptyLoot == [ items |-> 0, quest_items |-> 0 ]
\* What the host's own loot generation may have put into a corpse.
HostLoot  == { EmptyLoot, [ items |-> 1, quest_items |-> 0 ],
                          [ items |-> 0, quest_items |-> 1 ] }

\* Mutant: the quest item list is not searched.
LootHasItem_ItemsOnly(l) == l.items > 0

LootHasItem(l) == l.items > 0 \/ l.quest_items > 0
AddOneToLoot(l) == [ l EXCEPT !.items = @ + 1 ]
Units(l) == l.items + l.quest_items

\* ------------------------------------------------------------------- roll
\* Mutant: the cast truncates without the + 0.5.
RollDrop_Truncates(chancePct, roll) ==
    IF chancePct <= Pct(0) THEN FALSE
    ELSE IF chancePct >= Pct(100) THEN TRUE
    ELSE LET need == (100 * chancePct) \div ChanceUnit
         IN  roll <= need

RollDrop(chancePct, roll) ==
    IF chancePct <= Pct(0) THEN FALSE
    ELSE IF chancePct >= Pct(100) THEN TRUE
    ELSE LET need == (2 * 100 * chancePct + ChanceUnit) \div (2 * ChanceUnit)
         IN  roll <= need

\* ------------------------------------------------------------------ names
SanitizeChar(ch) == IF ch = "'" \/ ch = "\"" THEN "_" ELSE ch
Sanitize(name) ==
    LET cut == IF Len(name) > NAME_LIMIT THEN SubSeq(name, 1, NAME_LIMIT) ELSE name
    IN  [ i \in 1 .. Len(cut) |-> SanitizeChar(cut[i]) ]

\* ------------------------------------------------------------------- init
NoArg     == [ kind |-> "none" ]
NoRoll    == [ chancePct |-> 0, roll |-> 0, result |-> "none" ]

Init ==
    /\ variant \in { "two_phase", "kill_only" }
    /\ options = ShardConfig
    /\ gConf = ShardConfig
    /\ gAlreadyDropped = FALSE
    /\ gDbMutex = Free
    /\ tableExists = FALSE
    /\ rows = {}
    /\ loot \in [ Corpses -> HostLoot ]
    /\ pc = [ w \in Workers |-> "idle" ]
    /\ arg = [ w \in Workers |-> NoArg ]
    /\ sent = [ w \in Workers |-> << >> ]
    /\ cpc = "boot"
    /\ cres = NULL
    /\ started = FALSE
    /\ boots = 0
    /\ inserted = 0
    /\ cfail = FALSE
    /\ bootGranted = FALSE
    /\ rolled = NoRoll

\* ------------------------------------------------- world thread: config load
\* OnAfterConfigLoad: read and validate the options.
OnAfterConfigLoad_Begin(o) ==
    /\ IF cpc = "idle" THEN started ELSE cpc = "boot"
    /\ options' = o
    /\ gConf' = LoadConfig(o)
    /\ cpc' = "ensure"
    /\ cfail' = FALSE
    /\ UNCHANGED << variant, gAlreadyDropped, gDbMutex, tableExists, rows, loot,
                    pc, arg, sent, cres, started, boots, inserted, bootGranted, rolled >>

\* Mutant: REPLACE INTO, which overwrites the row of the same key.
InsertIgnore_Replace(rs, row) ==
    { r \in rs : r.keyname # row.keyname } \cup { row }

\* Mutant: the table is emptied before the default row is inserted.
InsertIgnore_Truncates(rs, row) == { row }

\* INSERT IGNORE: the primary key keeps an existing row as it is.
InsertIgnore(rs, row) ==
    IF \E r \in rs : r.keyname = row.keyname THEN rs ELSE rs \cup { row }

\* EnsureTable: CREATE TABLE IF NOT EXISTS, then INSERT IGNORE; either statement
\* may fail, its result is not looked at, and no lock is taken.
EnsureTable(okCreate, okInsert) ==
    /\ cpc = "ensure"
    /\ tableExists' = (tableExists \/ okCreate)
    /\ rows' = IF tableExists' /\ okInsert THEN InsertIgnore(rows, DefaultRow) ELSE rows
    /\ cfail' = (cfail \/ ~ okCreate \/ ~ okInsert)
    /\ cpc' = "reset"
    /\ UNCHANGED << variant, options, gConf, gAlreadyDropped, gDbMutex, loot,
                    pc, arg, sent, cres, started, boots, inserted, bootGranted, rolled >>

\* MaybeResetState: return unless resetOnStart, else take the lock.
MaybeResetState_Enter ==
    /\ cpc = "reset"
    /\ IF ~ gConf.resetOnStart
       THEN cpc' = "query" /\ UNCHANGED gDbMutex
       ELSE gDbMutex = Free /\ gDbMutex' = World /\ cpc' = "reset_write"
    /\ UNCHANGED << variant, options, gConf, gAlreadyDropped, tableExists, rows, loot,
                    pc, arg, sent, cres, started, boots, inserted, cfail, bootGranted, rolled >>

\* Mutant: the UPDATE clears the time and the name only.
ResetRow_KeepsDropped(r) == [ r EXCEPT !.last_drop_time = 0, !.last_killer = NULL ]

\* The SET clause of MaybeResetState's UPDATE.
ResetRow(r) == [ r EXCEPT !.dropped = FALSE, !.last_drop_time = 0, !.last_killer = NULL ]

\* MaybeResetState: the UPDATE clearing the record.
MaybeResetState_Update(ok) ==
    /\ cpc = "reset_write"
    /\ rows' = IF ok /\ tableExists THEN UpdateRows(rows, ResetRow) ELSE rows
    /\ cfail' = (cfail \/ ~ ok)
    /\ cpc' = "reset_store"
    /\ UNCHANGED << variant, options, gConf, gAlreadyDropped, gDbMutex, tableExists, loot,
                    pc, arg, sent, cres, started, boots, inserted, bootGranted, rolled >>

\* MaybeResetState: clear the cache and leave the lock's scope.
MaybeResetState_Store ==
    /\ cpc = "reset_store"
    /\ gAlreadyDropped' = FALSE
    /\ gDbMutex' = Free
    /\ cpc' = "query"
    /\ UNCHANGED << variant, options, gConf, tableExists, rows, loot,
                    pc, arg, sent, cres, started, boots, inserted, cfail, bootGranted, rolled >>

\* Mutant: the column read is ignored.
LoadDroppedState_Query_Forgets(ok) ==
    /\ cpc = "query"
    /\ cres' = IF ok /\ HasRow THEN Some(FALSE) ELSE NULL
    /\ cfail' = (cfail \/ ~ ok)
    /\ cpc' = "store"
    /\ UNCHANGED << variant, options, gConf, gAlreadyDropped, gDbMutex, tableExists, rows, loot,
                    pc, arg, sent, started, boots, inserted, bootGranted, rolled >>

\* LoadDroppedState: the SELECT; a failed query and an empty result both give
\* a null QueryResult.
LoadDroppedState_Query(ok) ==
    /\ cpc = "query"
    /\ cres' = IF ok /\ HasRow THEN Some(TheRow.dropped) ELSE NULL
    /\ cfail' = (cfail \/ ~ ok)
    /\ cpc' = "store"
    /\ UNCHANGED << variant, options, gConf, gAlreadyDropped, gDbMutex, tableExists, rows, loot,
                    pc, arg, sent, started, boots, inserted, bootGranted, rolled >>

\* Mutant: a null result leaves the cache as it was.
LoadDroppedState_Store_KeepsOnNull ==
    /\ cpc = "store"
    /\ gAlreadyDropped' = IF cres = NULL THEN gAlreadyDropped ELSE cres[1]
    /\ cres' = NULL
    /\ cpc' = "idle"
    /\ started' = TRUE
    /\ UNCHANGED << variant, options, gConf, gDbMutex, tableExists, rows, loot,
                    pc, arg, sent, boots, inserted, cfail, bootGranted, rolled >>

\* LoadDroppedState: store the column read into the cache, or false for a null
\* result; the load is complete.
LoadDroppedState_Store ==
    /\ cpc = "store"
    /\ gAlreadyDropped' = IF cres = NULL THEN FALSE ELSE cres[1]
    /\ cres' = NULL
    /\ cpc' = "idle"
    /\ started' = TRUE
    /\ UNCHANGED << variant, options, gConf, gDbMutex, tableExists, rows, loot,
                    pc, arg, sent, boots, inserted, cfail, bootGranted, rolled >>

\* ------------------------------------------------ worker threads: kill handler
\* The host runs one callback at a time for a given creature (its map's thread).
CorpseBusy(c) ==
    \E w \in Workers : pc[w] # "idle" /\ arg[w].kind = "kill"
                       /\ arg[w].killed # NULL /\ arg[w].killed[1].corpse = c

\* A global chat message.
Message(phase, who) == [ phase |-> phase, who |-> who ]

\* The kill-only build announces right after PersistDropped; the two-phase build
\* only logs.
AfterPersist(w) ==
    IF variant = "kill_only"
    THEN Append(sent[w], Message("kill", arg[w].killer[1]))
    ELSE sent[w]

\* Mutant: the cache closes the gate in repeat mode too.
GateClosed_IgnoresRepeat == gAlreadyDropped

\* Mutant: the gate cache is not consulted.
GateClosed_Never == FALSE

\* The gate check of OnPlayerCreatureKill.
GateClosed == ~ gConf.allowRepeat /\ gAlreadyDropped

\* OnPlayerCreatureKill: the checks up to the read of the gate cache.
OnPlayerCreatureKill_Begin(w, killer, killed, draw) ==
    /\ started
    /\ pc[w] = "idle"
    /\ killed # NULL => ~ CorpseBusy(killed[1].corpse)
    /\ arg' = [ arg EXCEPT ![w] =
                  [ kind |-> "kill", killer |-> killer, killed |-> killed, draw |-> draw,
                    cached |-> gAlreadyDropped,
                    before |-> IF killed = NULL THEN 0 ELSE Units(loot[killed[1].corpse]) ] ]
    /\ pc' = [ pc EXCEPT ![w] =
                 IF ~ gConf.enable \/ killer = NULL \/ killed = NULL THEN "done"
                 ELSE IF killed[1].entry # gConf.npcEntry THEN "done"
                 ELSE IF GateClosed THEN "done"
                 ELSE "k_loot" ]
    /\ UNCHANGED << variant, options, gConf, gAlreadyDropped, gDbMutex, tableExists, rows, loot,
                    sent, cpc, cres, started, boots, inserted, cfail, bootGranted, rolled >>

\* OnPlayerCreatureKill: LootHasItem, RollDrop, AddOneToLoot.
OnPlayerCreatureKill_Loot(w) ==
    /\ pc[w] = "k_loot"
    /\ LET c == arg[w].killed[1].corpse
           add == ~ LootHasItem(loot[c]) /\ RollDrop(gConf.chancePct, arg[w].draw)
       IN  /\ loot' = IF add THEN [ loot EXCEPT ![c] = AddOneToLoot(@) ] ELSE loot
           /\ inserted' = IF add THEN inserted + 1 ELSE inserted
           /\ pc' = [ pc EXCEPT ![w] = IF add THEN "k_persist" ELSE "done" ]
    /\ UNCHANGED << variant, options, gConf, gAlreadyDropped, gDbMutex, tableExists, rows,
                    arg, sent, cpc, cres, started, boots, cfail, bootGranted, rolled >>

\* Mutant: the grant is persisted in repeat mode too.
PersistDropped_KillPhase_Enter_Always(w) ==
    /\ pc[w] = "k_persist"
    /\ gDbMutex = Free
    /\ gDbMutex' = HeldBy(w)
    /\ pc' = [ pc EXCEPT ![w] = "k_write" ]
    /\ UNCHANGED << variant, options, gConf, gAlreadyDropped, tableExists, rows, loot,
                    arg, sent, cpc, cres, started, boots, inserted, cfail, bootGranted, rolled >>

\* PersistDropped_KillPhase / PersistDropped: return in repeat mode, else take
\* the lock.
PersistDropped_KillPhase_Enter(w) ==
    /\ pc[w] = "k_persist"
    /\ IF gConf.allowRepeat
       THEN /\ pc' = [ pc EXCEPT ![w] = "done" ]
            /\ sent' = [ sent EXCEPT ![w] = AfterPersist(w) ]
            /\ UNCHANGED gDbMutex
       ELSE /\ gDbMutex = Free
            /\ gDbMutex' = HeldBy(w)
            /\ pc' = [ pc EXCEPT ![w] = "k_write" ]
            /\ UNCHANGED sent
    /\ UNCHANGED << variant, options, gConf, gAlreadyDropped, tableExists, rows, loot,
                    arg, cpc, cres, started, boots, inserted, cfail, bootGranted, rolled >>

\* The value written to last_killer for a player's name.
KillerColumn(name) == IF name = << >> THEN NULL ELSE Some(Sanitize(name))

GrantRow(r, now, name) ==
    [ r EXCEPT !.dropped = TRUE, !.last_drop_time = now, !.last_killer = KillerColumn(name) ]

\* PersistDropped_KillPhase: the UPDATE marking the record dropped.
PersistDropped_KillPhase_Update(w, now, ok) ==
    /\ pc[w] = "k_write"
    /\ LET set(r) == GrantRow(r, now, arg[w].killer[1])
       IN  rows' = IF ok /\ tableExists THEN UpdateRows(rows, set) ELSE rows
    /\ pc' = [ pc EXCEPT ![w] = "k_store" ]
    /\ UNCHANGED << variant, options, gConf, gAlreadyDropped, gDbMutex, tableExists, loot,
                    arg, sent, cpc, cres, started, boots, inserted,
                    cfail, bootGranted, rolled >>

\* Mutant: the cache is not set after the UPDATE.
PersistDropped_KillPhase_Store_NoCache(w) ==
    /\ pc[w] = "k_store"
    /\ gDbMutex' = Free
    /\ pc' = [ pc EXCEPT ![w] = "done" ]
    /\ sent' = [ sent EXCEPT ![w] = AfterPersist(w) ]
    /\ UNCHANGED << variant, options, gConf, gAlreadyDropped, tableExists, rows, loot,
                    arg, cpc, cres, started, boots, inserted, cfail, bootGranted, rolled >>

\* PersistDropped_KillPhase: set the cache and leave the lock's scope.
PersistDropped_KillPhase_Store(w) ==
    /\ pc[w] = "k_store"
    /\ gAlreadyDropped' = TRUE
    /\ gDbMutex' = Free
    /\ pc' = [ pc EXCEPT ![w] = "done" ]
    /\ sent' = [ sent EXCEPT ![w] = AfterPersist(w) ]
    /\ UNCHANGED << variant, options, gConf, tableExists, rows, loot,
                    arg, cpc, cres, started, boots, inserted, cfail, bootGranted, rolled >>

\* ------------------------------------------------ worker threads: loot handler
\* OnPlayerLootItem (two-phase build only): the checks and AnnounceDrop_PlayerLoot.
OnPlayerLootItem_Begin(w, looter, item) ==
    /\ variant = "two_phase"
    /\ started
    /\ pc[w] = "idle"
    /\ arg' = [ arg EXCEPT ![w] = [ kind |-> "loot", looter |-> looter, item |-> item ] ]
    /\ LET skip == ~ gConf.enable \/ looter = NULL \/ item = NULL
                   \/ item # Some(ITEM_TALISMAN)
       IN  /\ pc' = [ pc EXCEPT ![w] = IF skip THEN "done" ELSE "l_persist" ]
           /\ sent' = [ sent EXCEPT ![w] =
                          IF skip THEN sent[w]
                          ELSE Append(sent[w], Message("loot", looter[1])) ]
    /\ UNCHANGED << variant, options, gConf, gAlreadyDropped, gDbMutex, tableExists, rows, loot,
                    cpc, cres, started, boots, inserted, cfail, bootGranted, rolled >>

\* PersistDropped_LootPhase: return in repeat mode or for an empty name, else
\* take the lock.
PersistDropped_LootPhase_Enter(w) ==
    /\ pc[w] = "l_persist"
    /\ IF gConf.allowRepeat \/ arg[w].looter[1] = << >>
       THEN pc' = [ pc EXCEPT ![w] = "done" ] /\ UNCHANGED gDbMutex
       ELSE gDbMutex = Free /\ gDbMutex' = HeldBy(w) /\ pc' = [ pc EXCEPT ![w] = "l_write" ]
    /\ UNCHANGED << variant, options, gConf, gAlreadyDropped, tableExists, rows, loot,
                    arg, sent, cpc, cres, started, boots, inserted, cfail, bootGranted, rolled >>

\* Mutant: the loot-phase UPDATE marks the record dropped as well.
LootRow_Grants(r, now, name) ==
    [ r EXCEPT !.dropped = TRUE, !.last_drop_time = now,
               !.last_killer = Some(Sanitize(name)) ]

\* The SET clause of PersistDropped_LootPhase's UPDATE.
LootRow(r, now, name) ==
    [ r EXCEPT !.last_drop_time = now, !.last_killer = Some(Sanitize(name)) ]

\* PersistDropped_LootPhase: the UPDATE of time and name, then the lock's scope ends.
PersistDropped_LootPhase_Update(w, now, ok) ==
    /\ pc[w] = "l_write"
    /\ LET set(r) == LootRow(r, now, arg[w].looter[1])
       IN  rows' = IF ok /\ tableExists THEN UpdateRows(rows, set) ELSE rows
    /\ gDbMutex' = Free
    /\ pc' = [ pc EXCEPT ![w] = "done" ]
    /\ UNCHANGED << variant, options, gConf, gAlreadyDropped, tableExists, loot,
                    arg, sent, cpc, cres, started, boots, inserted,
                    cfail, bootGranted, rolled >>

\* The callback returns to the host.
Return(w) ==
    /\ pc[w] = "done"
    /\ pc' = [ pc EXCEPT ![w] = "idle" ]
    /\ arg' = [ arg EXCEPT ![w] = NoArg ]
    /\ sent' = [ sent EXCEPT ![w] = << >> ]
    /\ UNCHANGED << variant, options, gConf, gAlreadyDropped, gDbMutex, tableExists, rows, loot,
                    cpc, cres, started, boots, inserted, cfail, bootGranted, rolled >>

\* --------------------------------------------------------------- the host
\* The process stops (or crashes) and starts again: memory is lost, the store
\* is kept, and the startup configuration load runs before any callback.
Restart ==
    /\ boots < MaxBoots
    /\ boots' = boots + 1
    /\ options' = ShardConfig
    /\ gConf' = ShardConfig
    /\ gAlreadyDropped' = FALSE
    /\ gDbMutex' = Free
    /\ loot' \in [ Corpses -> HostLoot ]
    /\ pc' = [ w \in Workers |-> "idle" ]
    /\ arg' = [ w \in Workers |-> NoArg ]
    /\ sent' = [ w \in Workers |-> << >> ]
    /\ cpc' = "boot"
    /\ cres' = NULL
    /\ started' = FALSE
    /\ inserted' = 0
    /\ cfail' = FALSE
    /\ bootGranted' = Granted
    /\ UNCHANGED << variant, tableExists, rows, rolled >>

Quiet == cpc \in { "idle", "boot" } /\ \A w \in Workers : pc[w] = "idle"

\* ------------------------------------------------------------ specifications
\* The steps of a configuration load after its first; WOk and ROk are the
\* outcomes the store's writes and reads may have.
LoadSteps(WOk, ROk) ==
    \/ \E okc, oki \in WOk : EnsureTable(okc, oki)
    \/ MaybeResetState_Enter
    \/ \E ok \in ROk : LoadDroppedState_Query(ok)
    \/ LoadDroppedState_Store

ResetSteps(WOk) ==
    \/ \E ok \in WOk : MaybeResetState_Update(ok)
    \/ MaybeResetState_Store

\* The steps of a running kill or loot callback after its first.
KillSteps(WOk) ==
    \/ \E w \in Workers : OnPlayerCreatureKill_Loot(w)
    \/ \E w \in Workers : PersistDropped_KillPhase_Enter(w)
    \/ \E w \in Workers, now \in Times, ok \in WOk : PersistDropped_KillPhase_Update(w, now, ok)
    \/ \E w \in Workers : PersistDropped_KillPhase_Store(w)

LootSteps(WOk) ==
    \/ \E w \in Workers : PersistDropped_LootPhase_Enter(w)
    \/ \E w \in Workers, now \in Times, ok \in WOk : PersistDropped_LootPhase_Update(w, now, ok)

Returns == \E w \in Workers : Return(w)

\* The host dispatches a configuration load, a kill or a loot collection, when
\* Ready holds, to a worker of Ws.
Dispatch(Ready, Ws, Opts, Ps, Ks) ==
    \/ Ready /\ \E o \in Opts : OnAfterConfigLoad_Begin(o)
    \/ Ready /\ \E w \in Ws, killer \in Ps, killed \in Ks, draw \in Draws :
                   OnPlayerCreatureKill_Begin(w, killer, killed, draw)
    \/ Ready /\ \E w \in Ws, looter \in Ps, item \in { NULL } \cup { Some(i) : i \in Items } :
                   OnPlayerLootItem_Begin(w, looter, item)

AnyPlayer == { NULL } \cup Players
AnyKilled == { NULL } \cup { Some(k) : k \in Killed }
\* Options that keep the gate in once-only mode and never reset it.
OnceOptions == { o \in RawOptions : ~ o.allowRepeat /\ ~ o.resetOnStart }

\* Spec: callbacks run one after the other (on one worker thread), over the
\* full input domains, and every store statement may fail.
Next ==
    \/ Dispatch(Quiet, { 1 }, RawOptions, AnyPlayer, AnyKilled)
    \/ LoadSteps(BOOLEAN, BOOLEAN)
    \/ ResetSteps(BOOLEAN)
    \/ KillSteps(BOOLEAN)
    \/ LootSteps(BOOLEAN)
    \/ Returns

Spec == Init /\ [][Next]_vars

\* SpecOnce: as Spec, with allowRepeat and resetOnStart never set and a store
\* whose statements all succeed.
NextOnce ==
    \/ Dispatch(Quiet, { 1 }, OnceOptions, AnyPlayer, AnyKilled)
    \/ LoadSteps({ TRUE }, { TRUE })
    \/ KillSteps({ TRUE })
    \/ LootSteps({ TRUE })
    \/ Returns

SpecOnce == Init /\ [][NextOnce]_vars

\* SpecRace: callbacks of several worker threads and of the world thread
\* interleave step by step; once-only mode, no reset, a store that never fails,
\* and the reduced input domains.
OnceHotOptions == { o \in HotOptions : ~ o.allowRepeat /\ ~ o.resetOnStart }

NextRace ==
    \/ Dispatch(TRUE, Workers, OnceHotOptions, HotPlayers, { Some(k) : k \in HotKilled })
    \/ LoadSteps({ TRUE }, { TRUE })
    \/ KillSteps({ TRUE })
    \/ LootSteps({ TRUE })
    \/ Returns

SpecRace == Init /\ [][NextRace]_vars

\* SpecRestart: as SpecOnce, with a store whose writes may fail, and with the
\* process restarting at any point.
NextRestart ==
    \/ Dispatch(Quiet, { 1 }, OnceOptions, AnyPlayer, AnyKilled)
    \/ LoadSteps(BOOLEAN, { TRUE })
    \/ KillSteps(BOOLEAN)
    \/ LootSteps(BOOLEAN)
    \/ Returns
    \/ Restart

SpecRestart == Init /\ [][NextRestart]_vars

\* ------------------------------------------------------------------ claims
KillDone(w) == pc[w] = "done" /\ arg[w].kind = "kill"
InsertedBy(w) ==
    arg[w].killed # NULL /\ Units(loot[arg[w].killed[1].corpse]) = arg[w].before + 1
NoKillRunning == \A w \in Workers : pc[w] \in { "idle", "done" }

\* C1: in once-only mode, with no reset and every store statement succeeding,
\* kill occurrences that run one after the other insert the reward at most once
\* in total, and once a kill occurrence has inserted it and finished, the
\* persisted granted flag and the cache are and stay true.
C1_AtMostOnce ==
    /\ inserted <= 1
    /\ (inserted >= 1 /\ NoKillRunning) => (Granted /\ gAlreadyDropped)

\* C1 witness: the reward has been inserted once and a later kill occurrence
\* against the target, with a passing roll and an empty corpse, has finished.
C1_Witness ==
    /\ inserted = 1
    /\ \E w \in Workers :
          /\ KillDone(w) /\ gConf.enable /\ arg[w].cached
          /\ arg[w].killer # NULL /\ arg[w].killed # NULL
          /\ arg[w].killed[1].entry = gConf.npcEntry
          /\ arg[w].before = 0
          /\ RollDrop(gConf.chancePct, arg[w].draw)

\* C2: in once-only mode, two kill occurrences against the target on distinct
\* corpses, dispatched concurrently, still insert the reward at most once in
\* total (check, roll, insertion, store write and cache update of one
\* occurrence exclude the other's).
C2_CriticalSection ==
    /\ inserted <= 1
    /\ \A v, w \in Workers :
          (KillDone(v) /\ KillDone(w) /\ v # w)
             => ~ (InsertedBy(v) /\ InsertedBy(w))

\* C3: the cache is set to granted only after the store write of a kill-phase
\* grant has succeeded: outside a reset in progress, a granted cache implies a
\* record that is marked dropped.
ResetInProgress == cpc \in { "reset_write", "reset_store" }
C3_CacheAfterStore ==
    (HasRow /\ ~ ResetInProgress) => (gAlreadyDropped => TheRow.dropped)

\* A finished kill occurrence against the configured target, by a player, on a
\* corpse that did not hold the reward, with a roll that passes.
KillCouldInsert(w) ==
    /\ KillDone(w) /\ gConf.enable
    /\ arg[w].killer # NULL /\ arg[w].killed # NULL
    /\ arg[w].killed[1].entry = gConf.npcEntry
    /\ arg[w].before = 0
    /\ RollDrop(gConf.chancePct, arg[w].draw)

\* C4: once a kill-phase grant is persisted in once-only mode, a restart whose
\* configuration load has resetOnStartup=false and can read the store
\* re-derives the cache as granted, and no kill occurrence after the restart
\* inserts the reward.
C4_RestartKeepsGate ==
    (boots > 0 /\ bootGranted) => (inserted = 0 /\ (started => gAlreadyDropped))

\* C4 witness: after such a restart a kill occurrence that could have inserted
\* the reward has finished, and the corpse is still empty.
C4_Witness ==
    /\ boots > 0 /\ bootGranted /\ started
    /\ \E w \in Workers : KillCouldInsert(w) /\ ~ InsertedBy(w)

\* C5: in repeat mode, with the feature enabled, every kill occurrence against
\* the target whose roll passes, on a corpse not already holding the reward,
\* inserts one unit, whatever the cache and the persisted granted flag are.
C5_RepeatInserts ==
    \A w \in Workers : (KillCouldInsert(w) /\ gConf.allowRepeat) => InsertedBy(w)

\* C5 witness: such an occurrence has inserted the reward although the cache was
\* granted when it was dispatched and the record is marked dropped.
C5_Witness ==
    \E w \in Workers :
       /\ KillCouldInsert(w) /\ gConf.allowRepeat /\ InsertedBy(w)
       /\ arg[w].cached /\ gAlreadyDropped /\ Granted

\* C6: a kill-phase grant in repeat mode leaves the persisted granted flag as
\* it is but still records the time and the killer of that grant.
C6_RepeatRecordsHistory ==
    \A w \in Workers :
       (KillDone(w) /\ InsertedBy(w) /\ gConf.allowRepeat /\ HasRow)
          => /\ TheRow.last_drop_time \in Times
             /\ TheRow.last_killer = KillerColumn(arg[w].killer[1])

\* The record as initialization creates it and as a reset leaves it.
RecordCleared == HasRow /\ ~ TheRow.dropped /\ TheRow.last_drop_time = 0
                        /\ TheRow.last_killer = NULL
\* The step that completes a configuration load with resetOnStartup=true.
ResetLoadCompletes == cpc = "store" /\ cpc' = "idle" /\ gConf.resetOnStart
\* A kill occurrence that could insert and found the cache not granted inserts.
ReadyGateInserts ==
    \A w \in Workers : (KillCouldInsert(w) /\ ~ arg[w].cached) => InsertedBy(w)

EnsureTableRuns == cpc = "ensure" /\ cpc' = "reset"
OneRecord == tableExists /\ Cardinality({ r \in rows : r.keyname = KEY_NAME }) = 1

OnHeldCorpse(w) == pc[w] # "idle" /\ arg[w].kind = "kill" /\ arg[w].before > 0

\* C9: a kill occurrence against a corpse that already holds the reward (in
\* items or in quest_items) adds no unit and changes neither the store nor the
\* cache, whatever the configuration; no corpse ever holds more than one unit.
C9_NoDuplicate ==
    /\ [] (\A c \in Corpses : Units(loot[c]) <= 1)
    /\ [][(\E w \in Workers : OnHeldCorpse(w)')
             => UNCHANGED << loot, inserted, tableExists, rows, gAlreadyDropped >>]_vars

\* C9 witness: in repeat mode with chance 100, a kill occurrence against the
\* target on a corpse holding the reward in its quest items has finished.
C9_Witness ==
    \E w \in Workers :
       /\ KillDone(w) /\ OnHeldCorpse(w)
       /\ gConf.enable /\ gConf.allowRepeat /\ gConf.chancePct = Pct(100)
       /\ arg[w].killer # NULL /\ arg[w].killed[1].entry = gConf.npcEntry
       /\ loot[arg[w].killed[1].corpse] = [ items |-> 0, quest_items |-> 1 ]

\* ------------------------------------------------------------ RollDrop alone
\* SpecRoll: RollDrop applied to a chance and a drawn integer.
RollChances == { Pct(0 - 1), Pct(0), 1, 5, 6, 128, 129, 1024, 51200, 102399,
                 Pct(100), Pct(100) + 1, Pct(150) }
RollDraws   == { 1, 2, 12, 13, 14, 100, 101, 5000, 5001, scale - 1, scale }

InitRoll ==
    /\ Init
    /\ variant = "two_phase"
    /\ loot = [ c \in Corpses |-> EmptyLoot ]

Roll(chancePct, roll) ==
    /\ rolled.result = "none"
    /\ rolled' = [ chancePct |-> chancePct, roll |-> roll,
                   result |-> IF RollDrop(chancePct, roll) THEN "pass" ELSE "fail" ]
    /\ UNCHANGED << variant, options, gConf, gAlreadyDropped, gDbMutex, tableExists, rows, loot,
                    pc, arg, sent, cpc, cres, started, boots, inserted, cfail, bootGranted >>

NextRoll == \E chancePct \in RollChances, roll \in RollDraws : Roll(chancePct, roll)

SpecRoll == InitRoll /\ [][NextRoll]_vars

\* round(chancePct * 100): the nearest integer, halves away from zero.
Round100(chancePct) ==
    CHOOSE n \in 0 .. scale + 1 :
       LET twice == 2 * (100 * chancePct - n * ChanceUnit)
       IN  (0 - ChanceUnit) <= twice /\ twice < ChanceUnit

\* C10: RollDrop is false for every chance <= 0, true for every chance >= 100,
\* and otherwise exactly (drawn integer <= round(chance * 100)).
C10_RollContract ==
    rolled.result # "none" =>
       (rolled.result = "pass") =
          ( IF rolled.chancePct <= Pct(0) THEN FALSE
            ELSE IF rolled.chancePct >= Pct(100) THEN TRUE
            ELSE rolled.roll <= Round100(rolled.chancePct) )

\* C10 witness: a chance of 0.125 %, for which chance * 100 is 12.5, has been
\* rolled with the draw 13 and has passed.
C10_Witness ==
    rolled = [ chancePct |-> 128, roll |-> 13, result |-> "pass" ]

\* The global chat messages emitted by the callback running on worker w.
Announced(w) == { sent[w][i] : i \in 1 .. Len(sent[w]) }

\* C11: a global announcement is emitted only by a loot collection of the
\* reward; a kill occurrence emits none, in either build.
C11_AnnounceOnlyAtLoot ==
    \A w \in Workers : arg[w].kind = "kill" => Announced(w) = {}

\* SpecStoreOk: as Spec, with a store whose statements all succeed.
NextStoreOk ==
    \/ Dispatch(Quiet, { 1 }, RawOptions, AnyPlayer, AnyKilled)
    \/ LoadSteps({ TRUE }, { TRUE })
    \/ ResetSteps({ TRUE })
    \/ KillSteps({ TRUE })
    \/ LootSteps({ TRUE })
    \/ Returns

SpecStoreOk == Init /\ [][NextStoreOk]_vars

LootDone(w) == pc[w] = "done" /\ arg[w].kind = "loot"

\* A finished loot collection of the reward by a named player, with the
\* feature enabled.
RewardCollected(w) ==
    /\ LootDone(w) /\ gConf.enable
    /\ arg[w].looter # NULL /\ arg[w].looter[1] # << >>
    /\ arg[w].item = Some(ITEM_TALISMAN)

\* C12: every loot collection of the reward while the feature is enabled
\* emits exactly one announcement naming the collector and records the loot
\* metadata: afterwards the persisted actor is the collector and the persisted
\* timestamp is non-zero, for every gate state and both values of allowRepeat.
C12_LootAnnouncesAndRecords ==
    \A w \in Workers :
       RewardCollected(w) =>
          /\ sent[w] = << Message("loot", arg[w].looter[1]) >>
          /\ HasRow
          /\ TheRow.last_killer = Some(Sanitize(arg[w].looter[1]))
          /\ TheRow.last_drop_time # 0

\* C13: a loot collection never changes the persisted granted flag or the
\* cache and never inserts an item into a container, whatever the item, the
\* actor and the gate state.
C13_LootLeavesGate ==
    [][(\E w \in Workers : arg'[w].kind = "loot")
          => (UNCHANGED << gAlreadyDropped, loot, inserted >> /\ Granted' = Granted)]_vars

\* C13 witness: a loot collection has written its time and collector into the
\* record of a gate that is not granted, in the store and in the cache.
C13_Witness ==
    \E w \in Workers :
       /\ RewardCollected(w)
       /\ HasRow /\ ~ TheRow.dropped /\ ~ gAlreadyDropped
       /\ TheRow.last_drop_time # 0
       /\ TheRow.last_killer = Some(Sanitize(arg[w].looter[1]))

\* SpecAll: callbacks of several worker threads and of the world thread
\* interleave step by step, in every mode, with resets, and every store
\* statement may fail; the reduced input domains.
NextAll ==
    \/ Dispatch(TRUE, Workers, HotOptions, HotPlayers, { Some(k) : k \in HotKilled })
    \/ LoadSteps(BOOLEAN, BOOLEAN)
    \/ ResetSteps(BOOLEAN)
    \/ KillSteps(BOOLEAN)
    \/ LootSteps(BOOLEAN)
    \/ Returns

SpecAll == Init /\ [][NextAll]_vars

\* The UPDATE of MaybeResetState, run because resetOnStart is set.
ResetWrites == gConf.resetOnStart /\ cpc = "reset_write" /\ cpc' = "reset_store"

\* C14: the persisted granted flag goes from true to false only in the reset
\* of a configuration load with resetOnStartup=true; no kill occurrence, loot
\* collection or EnsureTable run reverts it, under any interleaving.
C14_GrantedMonotone ==
    [][(Granted /\ ~ Granted') => ResetWrites]_vars

\* C14 witness: EnsureTable has just run again over a granted record while a
\* loot collection that has written its metadata into that record is running.
C14_Witness ==
    /\ Granted /\ cpc = "reset"
    /\ \E w \in Workers :
          /\ RewardCollected(w)
          /\ TheRow.last_killer = Some(Sanitize(arg[w].looter[1]))

\* LoadDroppedState got a null QueryResult: the query failed or found no row.
NullRead == cpc = "store" /\ cres = NULL

\* C15: when the read of the record fails during a configuration load (failed
\* query or no row), the load still completes and the cache is set to
\* not-granted whatever it held; a later kill occurrence that finds the cache
\* not granted and passes the roll inserts the reward.
C15_ReadFailureOpensGate ==
    /\ [][NullRead => (cpc' = "idle" /\ started' /\ ~ gAlreadyDropped')]_vars
    /\ [] (\A w \in Workers :
              (KillCouldInsert(w) /\ ~ arg[w].cached) => InsertedBy(w))

\* C15 witness: a configuration load without reset, one of whose statements
\* failed, has completed with the cache not granted over a record that is
\* marked dropped.
C15_Witness ==
    /\ started /\ Quiet /\ cpc = "idle"
    /\ ~ gConf.resetOnStart /\ cfail
    /\ Granted /\ ~ gAlreadyDropped

\* The persisted timestamp (0 while there is no record).
TimeOf == IF HasRow THEN TheRow.last_drop_time ELSE 0

\* A step in which a kill occurrence inserts the reward in repeat mode.
RepeatGrant == gConf.allowRepeat /\ inserted' = inserted + 1

\* C16: the persisted timestamp is 0 whenever the record is not granted in
\* once-only mode, and it changes to a non-zero value only in a step in which
\* granted becomes true or a repeat-mode grant is recorded.
C16_TimestampZeroUntilGranted ==
    /\ [] ((HasRow /\ ~ TheRow.dropped /\ ~ gConf.allowRepeat) => TimeOf = 0)
    /\ [][(TimeOf' # TimeOf /\ TimeOf' # 0) => ((~ Granted /\ Granted') \/ RepeatGrant)]_vars

\* A worker thread is inside the locked write of a kill or loot callback.
WorkerWrites(w) == gDbMutex = HeldBy(w) /\ pc[w] \in { "k_write", "k_store", "l_write" }

\* C17: every operation that writes the record holds the gate mutex for the
\* whole write, so no two writes are in progress at the same time: a worker's
\* UPDATE and the reset's UPDATE execute with the mutex held by their thread,
\* and EnsureTable's statements never execute while a worker thread is inside
\* its locked write.
C17_WritesSerialized ==
    [][/\ \A w \in Workers :
             (pc[w] \in { "k_write", "l_write" } /\ pc'[w] # pc[w]) => gDbMutex = HeldBy(w)
       /\ (cpc = "reset_write" /\ cpc' # cpc) => gDbMutex = World
       /\ EnsureTableRuns => ~ \E w \in Workers : WorkerWrites(w)]_vars

\* A configuration load has completed and none is running.
LoadCompleted == started /\ cpc = "idle"

\* C18: after every completed configuration load, whatever the raw options,
\* the chance is within [0,100] (a lower value becomes 0, a higher one 100, a
\* value inside is kept) and the target entry is non-zero (0 becomes 12056,
\* any other value is kept).
C18_ConfigValidated ==
    LoadCompleted =>
       /\ Pct(0) <= gConf.chancePct /\ gConf.chancePct <= Pct(100)
       /\ options.chancePct < Pct(0) => gConf.chancePct = Pct(0)
       /\ options.chancePct > Pct(100) => gConf.chancePct = Pct(100)
       /\ (Pct(0) <= options.chancePct /\ options.chancePct <= Pct(100))
             => gConf.chancePct = options.chancePct
       /\ gConf.npcEntry # 0
       /\ options.npcEntry = 0 => gConf.npcEntry = NPC_BARON_GEDDON
       /\ options.npcEntry # 0 => gConf.npcEntry = options.npcEntry

\* C18 witness: a load whose raw chance was 150 and whose raw entry was 0 has
\* completed.
C18_Witness ==
    /\ LoadCompleted
    /\ options.chancePct = Pct(150) /\ options.npcEntry = 0

\* A kill occurrence is running, or has just finished, for which the feature
\* is disabled, or the killed entry is not the configured target, or the cache
\* was granted at dispatch in once-only mode.
GatedKill(w) ==
    /\ pc[w] # "idle" /\ arg[w].kind = "kill"
    /\ \/ ~ gConf.enable
       \/ arg[w].killed # NULL /\ arg[w].killed[1].entry # gConf.npcEntry
       \/ arg[w].cached /\ ~ gConf.allowRepeat

\* C19: a kill occurrence is a complete no-op (containers, record and cache
\* unchanged, nothing announced, the roll never reached) whenever the feature
\* is disabled, the killed entry differs from the target, or the cache is
\* granted in once-only mode.
C19_GatedKillIsNoOp ==
    [][\A w \in Workers :
          GatedKill(w)' =>
             /\ UNCHANGED << loot, inserted, tableExists, rows, gAlreadyDropped >>
             /\ sent'[w] = << >>
             /\ pc'[w] = "done"]_vars

\* C19 witness: with the cache granted in once-only mode, a kill of the target
\* by a player, with chance 100 and an empty corpse, has finished and the
\* corpse is still empty.
C19_Witness ==
    \E w \in Workers :
       /\ KillDone(w) /\ GatedKill(w)
       /\ gConf.enable /\ ~ gConf.allowRepeat /\ gConf.chancePct = Pct(100)
       /\ arg[w].cached /\ arg[w].killer # NULL
       /\ arg[w].killed # NULL /\ arg[w].killed[1].entry = gConf.npcEntry
       /\ arg[w].before = 0 /\ Units(loot[arg[w].killed[1].corpse]) = 0

\* No configuration load and no kill or loot callback is in progress.
AllCompleted == LoadCompleted /\ NoKillRunning

\* C20: when a configuration reload without reset runs concurrently with a
\* kill-phase grant in once-only mode, then once both have completed the cache
\* equals the persisted granted flag.
C20_ReloadKeepsCacheTrue ==
    AllCompleted => (gAlreadyDropped = Granted)

\* The gate is READY: neither the record nor the cache is granted.
Ready == ~ Granted /\ ~ gAlreadyDropped

\* C21: in repeat mode no kill occurrence and no loot collection changes the
\* record (granted, timestamp, actor) or the cache; hence a gate that is READY
\* stays READY through repeat mode and through the configuration load that
\* switches back to once-only mode, however many rewards were inserted.
C21_RepeatModeLeavesGate ==
    /\ [][(gConf.allowRepeat /\ \E w \in Workers : arg'[w].kind \in { "kill", "loot" })
             => UNCHANGED << tableExists, rows, gAlreadyDropped >>]_vars
    /\ [][(Ready /\ (gConf.allowRepeat \/ cpc # "idle")) => Ready']_vars

\* C21 witness: after two insertions, a configuration load without reset and
\* without a failed statement has completed in once-only mode, and the gate is
\* READY over an untouched record.
C21_Witness ==
    /\ LoadCompleted /\ Quiet
    /\ ~ gConf.allowRepeat /\ ~ gConf.resetOnStart /\ ~ cfail
    /\ inserted >= 2
    /\ Ready /\ HasRow /\ TheRow = DefaultRow

\* SpecNames: as SpecOnce over the reduced input domains, with player names
\* that hold quote and control characters or exceed the column's length.
LongName     == [ i \in 1 .. NAME_LIMIT + 1 |-> IF i = 1 THEN "\"" ELSE "x" ]
OddNames     == { << >>, << "A" >>, << "B", "'" >>, << "C", "\n" >>, LongName }
QuoteChars   == { "'", "\"" }
ControlChars == { "\n", "\t", "\r" }

NextNames ==
    \/ Dispatch(Quiet, { 1 }, OnceHotOptions, { Some(n) : n \in OddNames },
                { Some(k) : k \in HotKilled })
    \/ LoadSteps({ TRUE }, { TRUE })
    \/ KillSteps({ TRUE })
    \/ LootSteps({ TRUE })
    \/ Returns

SpecNames == Init /\ [][NextNames]_vars

\* C22: the actor name persisted by a kill-phase grant or a loot-phase write
\* has at most 63 characters and holds no quote and no control character; an
\* empty killer name is persisted as NULL, never as an empty string.
C22_ActorSanitized ==
    (HasRow /\ TheRow.last_killer # NULL) =>
       LET name == TheRow.last_killer[1]
       IN  /\ name # << >>
           /\ Len(name) <= 63
           /\ \A i \in 1 .. Len(name) : name[i] \notin QuoteChars \cup ControlChars

====
